---------------------------- MODULE Spec2Model ----------------------------
(***************************************************************************)
(* Model of src/Finance.py: analyze_breakouts (lines 44-79) followed by    *)
(* create_summary_stats (lines 82-104).                                    *)
(*                                                                         *)
(* Numbers.  The code computes on float64 values (pandas / numpy).  A      *)
(* value is modelled as an extended rational [k, n, d]:                    *)
(*    k = "num" : the rational n / d, d > 0, in lowest terms               *)
(*    k = "inf" : +infinity (n = 1) or -infinity (n = -1)                  *)
(*    k = "nan" : not-a-number                                             *)
(* with the IEEE-754 rules for division by zero, for operations on         *)
(* infinities and NaN, and for comparisons with NaN (always false).        *)
(* Rounding error of binary floating point is not modelled: finite         *)
(* results are exact rationals.                                            *)
(*                                                                         *)
(* Positions are 0-based as in Python; column c of the frame is the        *)
(* sequence df[c], whose position i is df[c][i + 1].  The index labels     *)
(* (trading dates) are the day ordinals 0, 1, 2, ... counted from the      *)
(* first day of the series, so they are strictly increasing.               *)
(***************************************************************************)
EXTENDS Integers, Sequences, FiniteSets

VARIABLES
    pc,                 \* position of the run
    df,                 \* the DataFrame object passed to analyze_breakouts
    df_in,              \* the series as the caller held it before the call
    volume_threshold,   \* parameter, in percent
    price_threshold,    \* parameter, in percent
    holding_period,     \* parameter, in trading days
    breakout_days,      \* df[breakout_condition].index
    day_i,              \* number of breakout days the for loop has consumed
    breakout_results,   \* list of trade records built by the loop
    warnings,           \* breakout days passed to st.warning, in order
    results_df,         \* value returned by analyze_breakouts
    summary             \* value returned by create_summary_stats

vars == <<pc, df, df_in, volume_threshold, price_threshold, holding_period,
          breakout_days, day_i, breakout_results, warnings, results_df, summary>>

-----------------------------------------------------------------------------
(* Bounds of the model and program constants *)

Window == 20        \* rolling(window=20)
MaxPrefix == 20     \* longest flat lead-in of an input series
MaxTail == 2        \* most free days after the lead-in
MaxTrades == 3      \* most trade records handed to the aggregator alone

-----------------------------------------------------------------------------
(* float64 arithmetic on extended rationals *)

Abs(x) == IF x < 0 THEN -x ELSE x
Sign(x) == IF x < 0 THEN -1 ELSE IF x > 0 THEN 1 ELSE 0

RECURSIVE GCD(_, _)
GCD(a, b) == IF b = 0 THEN a ELSE GCD(b, a % b)

NaN == [k |-> "nan", n |-> 0, d |-> 1]
Inf(s) == [k |-> "inf", n |-> s, d |-> 1]

\* the rational n / d (d # 0) in lowest terms with a positive denominator
Num(n, d) ==
    LET g == GCD(Abs(n), Abs(d))
        s == IF d < 0 THEN -1 ELSE 1
    IN  [k |-> "num", n |-> s * (n \div g), d |-> s * (d \div g)]

Int2F(i) == [k |-> "num", n |-> i, d |-> 1]

IsNaN(a) == a.k = "nan"
IsInf(a) == a.k = "inf"
IsNum(a) == a.k = "num"

FNeg(a) == IF IsNaN(a) THEN NaN ELSE [a EXCEPT !.n = -a.n]

FAdd(a, b) ==
    IF IsNaN(a) \/ IsNaN(b) THEN NaN
    ELSE IF IsInf(a) /\ IsInf(b) THEN (IF a.n = b.n THEN a ELSE NaN)
    ELSE IF IsInf(a) THEN a
    ELSE IF IsInf(b) THEN b
    ELSE Num(a.n * b.d + b.n * a.d, a.d * b.d)

FSub(a, b) == FAdd(a, FNeg(b))

FMul(a, b) ==
    IF IsNaN(a) \/ IsNaN(b) THEN NaN
    ELSE IF IsInf(a) \/ IsInf(b)
         THEN (IF a.n = 0 \/ b.n = 0 THEN NaN ELSE Inf(Sign(a.n) * Sign(b.n)))
    ELSE Num(a.n * b.n, a.d * b.d)

\* float64 division: x / 0 is +-inf, 0 / 0 is NaN, nothing is raised
FDiv(a, b) ==
    IF IsNaN(a) \/ IsNaN(b) THEN NaN
    ELSE IF IsInf(a) /\ IsInf(b) THEN NaN
    ELSE IF IsInf(a) THEN Inf(a.n * (IF b.n < 0 THEN -1 ELSE 1))
    ELSE IF IsInf(b) THEN Int2F(0)
    ELSE IF b.n = 0 THEN (IF a.n = 0 THEN NaN ELSE Inf(Sign(a.n)))
    ELSE Num(a.n * b.d, a.d * b.n)

\* a > b; false as soon as one side is NaN
FGt(a, b) ==
    IF IsNaN(a) \/ IsNaN(b) THEN FALSE
    ELSE IF IsInf(a) THEN a.n = 1 /\ ~(IsInf(b) /\ b.n = 1)
    ELSE IF IsInf(b) THEN b.n = -1
    ELSE a.n * b.d > b.n * a.d

FLe(a, b) ==
    IF IsNaN(a) \/ IsNaN(b) THEN FALSE ELSE ~FGt(a, b)

\* n / d (d > 0) rounded to the nearest integer, ties to the even one
RoundHalfEven(n, d) ==
    LET q == n \div d
        r == n % d
    IN  IF 2 * r < d THEN q
        ELSE IF 2 * r > d THEN q + 1
        ELSE IF q % 2 = 0 THEN q ELSE q + 1

\* round(x, 2): inf and NaN pass through unchanged
Round2(a) ==
    IF IsNum(a) THEN Num(RoundHalfEven(a.n * 100, a.d), 100) ELSE a

-----------------------------------------------------------------------------
(* DataFrame helpers *)

Min(a, b) == IF a < b THEN a ELSE b

\* len(df)
FrameLen(d) == Len(d["Close"])

\* df.index: the label (trading date) of every position
Index(d) == [i \in 1..FrameLen(d) |-> i - 1]

\* df.index.get_loc(label): the position that carries the label
GetLoc(d, label) == CHOOSE p \in 0..(FrameLen(d) - 1) : Index(d)[p + 1] = label

\* seq[idx] with Python's rules: a negative idx counts from the end
PyAt(seq, idx) == IF idx < 0 THEN seq[Len(seq) + idx + 1] ELSE seq[idx + 1]

\* seq[idx] raises IndexError
IndexError(seq, idx) == idx < -Len(seq) \/ idx >= Len(seq)

\* df[name] = col: adds the column, or overwrites it, in place
SetColumn(d, name, col) ==
    [c \in (DOMAIN d) \cup {name} |-> IF c = name THEN col ELSE d[c]]

RECURSIVE SumRange(_, _, _)
SumRange(seq, lo, hi) ==
    IF lo > hi THEN 0 ELSE seq[hi] + SumRange(seq, lo, hi - 1)

\* variant: a window one day short
RollingMeanShortWindow(volume) ==
    [i \in 1..Len(volume) |->
        IF i < Window - 1 THEN NaN
        ELSE Num(SumRange(volume, i - Window + 2, i), Window - 1)]

\* df['Volume'].rolling(window=20).mean()
RollingMean(volume) ==
    [i \in 1..Len(volume) |->
        IF i < Window THEN NaN
        ELSE Num(SumRange(volume, i - Window + 1, i), Window)]

\* variant: the quotient taken the wrong way round
PctChangeSwapped(close) ==
    [i \in 1..Len(close) |->
        IF i = 1 THEN NaN
        ELSE FSub(FDiv(Int2F(close[i - 1]), Int2F(close[i])), Int2F(1))]

\* df['Close'].pct_change(): close[t] / close[t-1] - 1
PctChange(close) ==
    [i \in 1..Len(close) |->
        IF i = 1 THEN NaN
        ELSE FSub(FDiv(Int2F(close[i]), Int2F(close[i - 1])), Int2F(1))]

\* df['Volume'] / df['Volume_MA20']
VolumeRatio(volume, ma) ==
    [i \in 1..Len(volume) |-> FDiv(Int2F(volume[i]), ma[i])]

\* variant: the price comparison is >= instead of >
BreakoutConditionNonStrict(d, vt, pt, i) ==
    /\ FGt(d["Volume_Ratio"][i], Num(vt, 100))
    /\ ~IsNaN(d["Daily_Return"][i])
    /\ ~FGt(Num(pt, 100), d["Daily_Return"][i])

\* one row of breakout_condition
BreakoutCondition(d, vt, pt, i) ==
    /\ FGt(d["Volume_Ratio"][i], Num(vt, 100))
    /\ FGt(d["Daily_Return"][i], Num(pt, 100))

\* df[breakout_condition].index
BreakoutIndex(d, vt, pt) ==
    SelectSeq(Index(d), LAMBDA label : BreakoutCondition(d, vt, pt, label + 1))

-----------------------------------------------------------------------------
(* analyze_breakouts *)

\* lines 48-56: the derived columns are written into the frame passed in
Prepare ==
    /\ pc = "start"
    /\ LET d1 == SetColumn(df, "Volume_MA20", RollingMean(df["Volume"]))
           d2 == SetColumn(d1, "Daily_Return", PctChange(d1["Close"]))
           d3 == SetColumn(d2, "Volume_Ratio",
                           VolumeRatio(d2["Volume"], d2["Volume_MA20"]))
       IN  /\ df' = d3
           /\ breakout_days' = BreakoutIndex(d3, volume_threshold, price_threshold)
    /\ breakout_results' = << >>
    /\ day_i' = 0
    /\ pc' = "loop"
    /\ UNCHANGED <<df_in, volume_threshold, price_threshold, holding_period,
                   warnings, results_df, summary>>

\* the for loop has a next breakout day
HasNext == day_i < Len(breakout_days)

\* that day
NextDay == breakout_days[day_i + 1]

\* variant: the entry day counted as the first day of the holding period
ExitDateIdxInclusive(d, breakout_day, hp) ==
    Min(GetLoc(d, breakout_day) + hp - 1, FrameLen(d) - 1)

\* line 62
ExitDateIdx(d, breakout_day, hp) ==
    Min(GetLoc(d, breakout_day) + hp, FrameLen(d) - 1)

\* lines 60-74: the record appended for breakout_day
TradeRecord(d, breakout_day, hp) ==
    LET entry_price == Int2F(d["Close"][GetLoc(d, breakout_day) + 1])
        exit_date_idx == ExitDateIdx(d, breakout_day, hp)
        exit_date == PyAt(Index(d), exit_date_idx)
        exit_price == Int2F(PyAt(d["Close"], exit_date_idx))
        trade_return == FMul(FDiv(FSub(exit_price, entry_price), entry_price),
                             Int2F(100))
    IN  [Entry_Date |-> breakout_day,
         Entry_Price |-> Round2(entry_price),
         Exit_Date |-> exit_date,
         Exit_Price |-> Round2(exit_price),
         Return_Pct |-> Round2(trade_return),
         Volume_Ratio |-> Round2(d["Volume_Ratio"][GetLoc(d, breakout_day) + 1])]

\* the try body raises: only the two positional lookups of lines 63-64 can
TryRaises(d, breakout_day, hp) ==
    IndexError(Index(d), ExitDateIdx(d, breakout_day, hp))

\* lines 58-74, no exception
AppendTrade ==
    /\ pc = "loop"
    /\ HasNext
    /\ ~TryRaises(df, NextDay, holding_period)
    /\ breakout_results' =
          Append(breakout_results,
                 TradeRecord(df, NextDay, holding_period))
    /\ day_i' = day_i + 1
    /\ UNCHANGED <<pc, df, df_in, volume_threshold, price_threshold,
                   holding_period, breakout_days, warnings, results_df, summary>>

\* variant: the exception is swallowed without the warning
SkipTradeSilent ==
    /\ pc = "loop"
    /\ HasNext
    /\ TryRaises(df, NextDay, holding_period)
    /\ day_i' = day_i + 1
    /\ UNCHANGED <<pc, df, df_in, volume_threshold, price_threshold,
                   holding_period, breakout_days, breakout_results, warnings,
                   results_df, summary>>

\* lines 75-77: except, st.warning, continue
SkipTrade ==
    /\ pc = "loop"
    /\ HasNext
    /\ TryRaises(df, NextDay, holding_period)
    /\ warnings' = Append(warnings, NextDay)
    /\ day_i' = day_i + 1
    /\ UNCHANGED <<pc, df, df_in, volume_threshold, price_threshold,
                   holding_period, breakout_days, breakout_results, results_df,
                   summary>>

\* line 79
Return ==
    /\ pc = "loop"
    /\ ~HasNext
    /\ results_df' = breakout_results
    /\ pc' = "returned"
    /\ UNCHANGED <<day_i, df, df_in, volume_threshold, price_threshold, holding_period,
                   breakout_days, day_i, breakout_results, warnings, summary>>

-----------------------------------------------------------------------------
(* create_summary_stats *)

\* results_df['Return_Pct']
ReturnPct(results) == [i \in 1..Len(results) |-> results[i].Return_Pct]

\* pandas reductions skip NaN entries (skipna=True)
DropNaN(xs) == SelectSeq(xs, LAMBDA x : ~IsNaN(x))

RECURSIVE SumF(_)
SumF(xs) == IF Len(xs) = 0 THEN Int2F(0) ELSE FAdd(Head(xs), SumF(Tail(xs)))

\* variant: the divisor of the sample variance used for the mean
MeanSampleDivisor(xs) ==
    LET v == DropNaN(xs)
    IN  IF Len(v) = 0 THEN NaN
        ELSE IF Len(v) = 1 THEN Head(v)
        ELSE FDiv(SumF(v), Int2F(Len(v) - 1))

\* Series.mean()
Mean(xs) ==
    LET v == DropNaN(xs)
    IN  IF Len(v) = 0 THEN NaN ELSE FDiv(SumF(v), Int2F(Len(v)))

RECURSIVE MaxF(_)
MaxF(v) ==
    IF Len(v) = 1 THEN Head(v)
    ELSE LET m == MaxF(Tail(v)) IN IF FGt(Head(v), m) THEN Head(v) ELSE m

RECURSIVE MinF(_)
MinF(v) ==
    IF Len(v) = 1 THEN Head(v)
    ELSE LET m == MinF(Tail(v)) IN IF FGt(m, Head(v)) THEN Head(v) ELSE m

\* Series.max() and Series.min()
Max(xs) == LET v == DropNaN(xs) IN IF Len(v) = 0 THEN NaN ELSE MaxF(v)
SeriesMin(xs) == LET v == DropNaN(xs) IN IF Len(v) = 0 THEN NaN ELSE MinF(v)

\* (results_df['Return_Pct'] > 0).mean() * 100
WinRate(xs) ==
    LET wins == SelectSeq(xs, LAMBDA x : FGt(x, Int2F(0)))
    IN  FMul(FDiv(Int2F(Len(wins)), Int2F(Len(xs))), Int2F(100))

\* a value that has at most two decimals, in hundredths
Hundredths(a) == (a.n * 100) \div a.d

\* floor of the square root, by bisection on lo <= root < hi
RECURSIVE Bisect(_, _, _)
Bisect(x, lo, hi) ==
    IF hi - lo <= 1 THEN lo
    ELSE LET mid == (lo + hi) \div 2
         IN  IF mid * mid <= x THEN Bisect(x, mid, hi) ELSE Bisect(x, lo, mid)

ISqrt(x) == Bisect(x, 0, 46341)

\* sum over the pairs i < j of the quotient (or of the remainder) of
\* (h[i] - h[j])^2 by D
RECURSIVE PairSum(_, _, _, _, _)
PairSum(h, i, j, D, quotient) ==
    IF i >= Len(h) THEN 0
    ELSE IF j > Len(h) THEN PairSum(h, i + 1, i + 2, D, quotient)
    ELSE LET sq == (h[i] - h[j]) * (h[i] - h[j])
         IN  (IF quotient THEN sq \div D ELSE sq % D)
                + PairSum(h, i, j + 1, D, quotient)

\* Series.std(): sample standard deviation (ddof=1), NaN below two values.
\* The variance of the hundredths h is the sum of the squared pairwise
\* differences over n(n-1); its root is taken to the nearest hundredth,
\* which is what the final round(2) of line 104 leaves of it.
Std(xs) ==
    LET v == DropNaN(xs)
        n == Len(v)
    IN  IF n <= 1 THEN NaN
        ELSE IF \E i \in 1..n : IsInf(v[i]) THEN NaN
        ELSE LET h == [i \in 1..n |-> Hundredths(v[i])]
                 D == n * (n - 1)
                 Q == PairSum(h, 1, 2, D, TRUE)
                 R == PairSum(h, 1, 2, D, FALSE)
                 var4 == 4 * Q + ((4 * R) \div D)
             IN  Num((ISqrt(var4) + 1) \div 2, 100)

\* lines 86-104
create_summary_stats(results) ==
    IF Len(results) = 0
    THEN [Total_Trades |-> Int2F(0), Win_Rate |-> Int2F(0),
          Average_Return |-> Int2F(0), Max_Return |-> Int2F(0),
          Min_Return |-> Int2F(0), Std_Dev |-> Int2F(0)]
    ELSE LET r == ReturnPct(results)
         IN  [Total_Trades |-> Round2(Int2F(Len(results))),
              Win_Rate |-> Round2(WinRate(r)),
              Average_Return |-> Round2(Mean(r)),
              Max_Return |-> Round2(Max(r)),
              Min_Return |-> Round2(SeriesMin(r)),
              Std_Dev |-> Round2(Std(r))]

\* the aggregator applied to what the detector returned
Summarize ==
    /\ pc = "returned"
    /\ summary' = create_summary_stats(results_df)
    /\ pc' = "done"
    /\ UNCHANGED <<df, df_in, volume_threshold, price_threshold, holding_period,
                   breakout_days, day_i, breakout_results, warnings, results_df>>

-----------------------------------------------------------------------------
(* Inputs *)

\* close prices and volumes of a free day
Closes == {0, 1, 2, 3}
Volumes == {1, 3}

\* parameters: the host's widgets allow volume >= 50, price >= 0.1 and
\* holding >= 1 (lines 114-116); analyze_breakouts itself accepts any number
VolumeThresholds == {100, 250}
PriceThresholds == {-200, 0, 50}
HoldingPeriods == {-(2 * Window + 1), -Window, -1, 0, 1}

\* a lead-in of p flat days (close 1, volume 1)
Flat(p) == [i \in 1..p |-> 1]

Tails == UNION {[1..m -> Closes \X Volumes] : m \in 0..MaxTail}

Frame(p, t) ==
    [Close |-> Flat(p) \o [i \in 1..Len(t) |-> t[i][1]],
     Volume |-> Flat(p) \o [i \in 1..Len(t) |-> t[i][2]]]

\* the input series: the flat series of every length, the free days alone,
\* and the free days after a lead-in that ends around the rolling window
Series ==
    {Frame(p, << >>) : p \in 0..MaxPrefix}
        \cup {Frame(0, t) : t \in Tails}
        \cup {Frame(p, t) : p \in (Window - MaxTail - 1)..MaxPrefix, t \in Tails}

NoSummary == [Total_Trades |-> NaN]

Init ==
    /\ pc = "start"
    /\ df \in Series
    /\ df_in = df
    /\ volume_threshold \in VolumeThresholds
    /\ price_threshold \in PriceThresholds
    /\ holding_period \in HoldingPeriods
    /\ breakout_days = << >>
    /\ day_i = 0
    /\ breakout_results = << >>
    /\ warnings = << >>
    /\ results_df = << >>
    /\ summary = NoSummary

Next ==
    \/ Prepare
    \/ AppendTrade
    \/ SkipTrade
    \/ Return
    \/ Summarize

Spec == Init /\ [][Next]_vars

-----------------------------------------------------------------------------
(* create_summary_stats on its own: any collection of trade records *)

\* returns with two decimals, as analyze_breakouts stores them
ReturnValues == {Num(h, 100) : h \in {-150, -1, 0, 1, 2, 333}}

TradeWithReturn(r) ==
    [Entry_Date |-> 0, Entry_Price |-> Int2F(100), Exit_Date |-> 1,
     Exit_Price |-> FAdd(Int2F(100), r), Return_Pct |-> r,
     Volume_Ratio |-> Int2F(3)]

Collections ==
    UNION {[1..m -> {TradeWithReturn(r) : r \in ReturnValues}] : m \in 0..MaxTrades}

InitStats ==
    /\ pc = "returned"
    /\ results_df \in Collections
    /\ df = Frame(0, << >>)
    /\ df_in = df
    /\ volume_threshold = 200
    /\ price_threshold = 2
    /\ holding_period = 10
    /\ breakout_days = << >>
    /\ day_i = 0
    /\ breakout_results = results_df
    /\ warnings = << >>
    /\ summary = NoSummary

NextStats == Summarize

SpecStats == InitStats /\ [][NextStats]_vars

-----------------------------------------------------------------------------
(* Properties *)

Finished == pc \in {"returned", "done"}

Positions == 0..(FrameLen(df_in) - 1)

CloseAt(t) == df_in["Close"][t + 1]
VolumeAt(t) == df_in["Volume"][t + 1]

\* volumeRatio[t] is defined and exceeds volume_threshold / 100, stated on
\* the input alone: 20 days are available, their volumes do not sum to zero
\* (0 / 0 has no value) and volume * 20 / sum > threshold / 100
RatioExceeds(t) ==
    /\ t + 1 >= Window
    /\ LET total == SumRange(df_in["Volume"], t - Window + 2, t + 1)
       IN  /\ total > 0
           /\ VolumeAt(t) * Window * 100 > volume_threshold * total

\* dailyReturn[t] is defined and exceeds price_threshold / 100, stated on the
\* input alone: a rise from a zero close is an infinite return
ReturnExceeds(t) ==
    /\ t >= 1
    /\ \/ /\ CloseAt(t - 1) > 0
          /\ (CloseAt(t) - CloseAt(t - 1)) * 100 > price_threshold * CloseAt(t - 1)
       \/ /\ CloseAt(t - 1) = 0
          /\ CloseAt(t) > 0

Qualifies(t) == RatioExceeds(t) /\ ReturnExceeds(t)

QualifyingDays == SelectSeq(Index(df_in), Qualifies)

EntryDates(results) == [i \in 1..Len(results) |-> results[i].Entry_Date]

Range(seq) == {seq[i] : i \in 1..Len(seq)}

ZeroSummary ==
    [Total_Trades |-> Int2F(0), Win_Rate |-> Int2F(0),
     Average_Return |-> Int2F(0), Max_Return |-> Int2F(0),
     Min_Return |-> Int2F(0), Std_Dev |-> Int2F(0)]

\* C1: with a holding period h >= 0, every trade record exits at position
\* entry + h, or at the last position L when entry + h exceeds L; the exit
\* is never before the entry and never past L.
C1_ExitIndex ==
    holding_period >= 0 =>
        \A i \in 1..Len(breakout_results) :
            LET e == GetLoc(df, breakout_results[i].Entry_Date)
                x == GetLoc(df, breakout_results[i].Exit_Date)
                L == FrameLen(df) - 1
            IN  /\ x = (IF e + holding_period > L THEN L ELSE e + holding_period)
                /\ e <= x
                /\ x <= L

\* two records of one run: the first exits a full holding period after its
\* entry, the second is clamped to the last day
C1_Witness ==
    /\ pc = "done"
    /\ holding_period = 1
    /\ Len(results_df) = 2
    /\ results_df[1].Exit_Date = results_df[1].Entry_Date + 1
    /\ results_df[2].Entry_Date = FrameLen(df) - 1
    /\ results_df[2].Exit_Date = FrameLen(df) - 1

\* C2: with a holding period h >= 0, the entry dates of the returned records
\* are exactly the days whose volume ratio and daily return are both defined
\* and strictly above their thresholds, in ascending order, one record per
\* day.
C2_EntryDates ==
    (Finished /\ holding_period >= 0) => EntryDates(results_df) = QualifyingDays

\* two consecutive days each have their record, and a day with 20 days of
\* volume behind it whose return equals the threshold exactly has none
C2_Witness ==
    /\ pc = "done"
    /\ holding_period >= 0
    /\ \E i \in 1..(Len(results_df) - 1) :
          results_df[i + 1].Entry_Date = results_df[i].Entry_Date + 1
    /\ \E t \in Positions :
          /\ t + 1 >= Window
          /\ CloseAt(t - 1) > 0
          /\ (CloseAt(t) - CloseAt(t - 1)) * 100 = price_threshold * CloseAt(t - 1)
          /\ t \notin Range(EntryDates(results_df))

\* a day whose return is above the threshold and whose volume ratio equals
\* the threshold exactly has no record
C2_WitnessRatioTie ==
    /\ pc = "done"
    /\ \E t \in Positions :
          /\ ReturnExceeds(t)
          /\ t + 1 >= Window
          /\ VolumeAt(t) * Window * 100
                = volume_threshold * SumRange(df_in["Volume"], t - Window + 2, t + 1)
          /\ t \notin Range(EntryDates(results_df))

\* C3: a series of fewer than 20 points gives no trade record, and the
\* summary of that result is all zero, whatever the parameters.
C3_ShortSeries ==
    FrameLen(df_in) < Window =>
        /\ breakout_results = << >>
        /\ Finished => results_df = << >>
        /\ pc = "done" => summary = ZeroSummary

\* 19 points, the last one with a price rise and a volume spike
C3_Witness ==
    /\ pc = "done"
    /\ FrameLen(df_in) = Window - 1
    /\ CloseAt(Window - 2) = 2
    /\ CloseAt(Window - 3) = 1
    /\ VolumeAt(Window - 2) = 3
    /\ summary = ZeroSummary

\* C4: a non-positive holding period or a negative threshold makes the run
\* fail: no trade record is produced.
C4_FailFast ==
    (holding_period <= 0 \/ volume_threshold < 0 \/ price_threshold < 0) =>
        breakout_results = << >>

\* C5: with a holding period h >= 1, a qualifying day whose close is zero
\* has no record, and every other qualifying day has one.
C5_ZeroEntrySkipped ==
    (Finished /\ holding_period >= 1) =>
        \A t \in Positions :
            Qualifies(t) =>
                (CloseAt(t) = 0 <=> t \notin Range(EntryDates(results_df)))

\* C6: the summary of a non-empty collection has a win rate within [0, 100]
\* and an average return within [Min_Return, Max_Return].
C6_SummaryRanges ==
    (pc = "done" /\ Len(results_df) > 0) =>
        /\ FLe(Int2F(0), summary.Win_Rate)
        /\ FLe(summary.Win_Rate, Int2F(100))
        /\ FLe(summary.Min_Return, summary.Average_Return)
        /\ FLe(summary.Average_Return, summary.Max_Return)

\* three records, winners and losers, with an average strictly inside
C6_Witness ==
    /\ pc = "done"
    /\ Len(results_df) = 3
    /\ FGt(summary.Win_Rate, Int2F(0))
    /\ FGt(Int2F(100), summary.Win_Rate)
    /\ FGt(summary.Average_Return, summary.Min_Return)
    /\ FGt(summary.Max_Return, summary.Average_Return)

\* C7: the summary of a single record with return r has one trade, win rate
\* 100 if r > 0 and 0 otherwise, average = maximum = minimum = r, and a
\* standard deviation of zero.
C7_SingleTrade ==
    (pc = "done" /\ Len(results_df) = 1) =>
        LET r == results_df[1].Return_Pct
        IN  /\ summary.Total_Trades = Int2F(1)
            /\ summary.Win_Rate = (IF FGt(r, Int2F(0)) THEN Int2F(100) ELSE Int2F(0))
            /\ summary.Average_Return = r
            /\ summary.Max_Return = r
            /\ summary.Min_Return = r
            /\ summary.Std_Dev = Int2F(0)

\* C8: after the call the caller's series holds the fields and values it
\* held before the call.
C8_InputUnchanged == (Finished /\ FrameLen(df_in) > 0) => df = df_in

C10_PositiveEntry ==
    (price_threshold >= 0 /\ \A t \in Positions : CloseAt(t) >= 0) =>
        /\ \A i \in 1..Len(breakout_days) : CloseAt(breakout_days[i]) > 0
        /\ \A i \in 1..Len(breakout_results) : IsNum(breakout_results[i].Return_Pct)

\* a breakout day that follows a day with a zero close
C10_Witness ==
    /\ pc = "done"
    /\ price_threshold >= 0
    /\ \E i \in 1..Len(results_df) :
          /\ CloseAt(results_df[i].Entry_Date - 1) = 0
          /\ IsNum(results_df[i].Return_Pct)

=============================================================================
